---- MODULE Spec2Model ----
(***************************************************************************)
(* Model of goprodl.py (timelapse-dl): the fetch stage                     *)
(* (download_all_images / download / delete_image / list_images) and the   *)
(* poll loops (download_loop, process_loop, upload_loop, runit.py).        *)
(* The interpreter is Python 2 (runit.py uses the builtin reload and       *)
(* goprodl.py opens stdout with os.fdopen(..., 'w', 0)).                   *)
(***************************************************************************)
EXTENDS Integers, Sequences, FiniteSets, TLC

\* ------------------------------------------------------------------ bounds
MaxName == 2      \* image file names per camera directory
NumChunks == 2    \* chunks in one image body (iter_content yields this many)
MaxLimit == 2     \* largest value of the limit option
MaxRuns == 2      \* invocations of download_all_images in one behaviour
MaxSizes == 3     \* sizes in one list passed to resize_images

\* the camera's DCIM directories (hrefs containing GOPRO), oldest first
CameraDirs == {100, 101}
Names == 1..MaxName
Limits == 0..MaxLimit          \* 0 stands for limit=None (both are falsy)
Uuids == {"u1"}                \* values of uuid.uuid4()

\* a file on the camera, relative to DCIM: directory and file name
RelPaths == [dir : CameraDirs, name : Names]

base_url == "http://10.5.5.9/videos/DCIM/"

\* line 101: image_url = directory_url + href, directory_url = base_url + href
ImageUrl(rel) == [base |-> base_url, dir |-> rel.dir, name |-> rel.name]

\* line 124 / 165: url.split('/')[-1]
image_filename(url) == url.name

\* line 199: url.split('/DCIM')[-1]
rel_path(url) == [dir |-> url.dir, name |-> url.name]

\* lines 125-126: the marker path depends on the file name alone
progress_filepath(url) == [progress_filename |-> image_filename(url)]

\* lines 166-169: '.partial-download.<uuid>.<image_filename>' in target_dir
TargetPathTmp(url, u) == [partial |-> u, name |-> image_filename(url)]

\* lines 170-173: target_dir/<image_filename>
TargetPathDl(url) == [partial |-> "", name |-> image_filename(url)]

\* newest first: directories reversed, then the images of a directory reversed
Newer(a, b) == \/ a.dir > b.dir
               \/ a.dir = b.dir /\ a.name > b.name

RECURSIVE list_images(_)
list_images(cam) ==
    IF cam = {} THEN <<>>
    ELSE LET x == CHOOSE a \in cam : \A b \in cam \ {a} : Newer(a, b)
         IN <<ImageUrl(x)>> \o list_images(cam \ {x})

Range(s) == {s[i] : i \in 1..Len(s)}

\* the staging directory is a set of files: path, the camera file the bytes
\* come from, and the number of chunks written
File(p, src, n) == [path |-> p, src |-> src, n |-> n]
Put(F, p, src, n) == {x \in F : x.path # p} \cup {File(p, src, n)}
Remove(F, p) == {x \in F : x.path # p}
Move(F, p, q) ==
    {x \in F : x.path \notin {p, q}}
        \cup {File(q, y.src, y.n) : y \in {x \in F : x.path = p}}

VARIABLES
    \* options of download_all_images
    skip_existing, delete_after_download, limit, check,
    \* the world: camera card, local directories, staging files, markers
    camera, dirs, files, markers,
    \* locals of download_all_images / download
    pc, listing, idx, is_first, count, target_path_tmp, transfer,
    \* history of the current invocation and of earlier ones
    deleteReqs, fetched, dlStarted, dlDone, failed, byLimit,
    runs, prev, markers0,
    \* the poll loop around the stage
    cmd, hard_exit, lpc, outcome,
    \* the process and reprocess commands: their options, the source
    \* directory, the canonical tree and the temporary directory of
    \* resize_images
    kwargs, staged, tree, tmpdir,
    \* locals of process_all_images / reprocess_daydir / process_image /
    \* resize_images, and the source files process_image was called with
    ppc, caller, todo, img, imgs, k, called

opts == <<skip_existing, delete_after_download, limit, check>>
world == <<camera, dirs, files, markers>>
locals == <<pc, listing, idx, is_first, count, target_path_tmp, transfer>>
hist == <<deleteReqs, fetched, dlStarted, dlDone, failed, byLimit>>
runhist == <<runs, prev, markers0>>
loopv == <<cmd, hard_exit, lpc, outcome>>
procv == <<kwargs, staged, tree, tmpdir, ppc, caller, todo, img, imgs, k,
           called>>
vars == <<opts, world, locals, hist, runhist, loopv, procv>>

\* no temporary directory
NoTmp == [made |-> FALSE, files |-> {}]

\* the process commands are not running (the fetch stage and its loops)
ProcIdle ==
    /\ kwargs = [source_file |-> <<>>, copy |-> FALSE, resize |-> FALSE,
                 dryrun |-> FALSE, loop |-> FALSE]
    /\ staged = {}
    /\ tree = {}
    /\ tmpdir = NoTmp
    /\ ppc = "idle"
    /\ caller = "none"
    /\ todo = <<>>
    /\ img = <<>>
    /\ imgs = <<>>
    /\ k = 0
    /\ called = {}

image_url == listing[idx]
NoPath == [partial |-> "", name |-> 0]

Exists(p) == \E x \in files : x.path = p
FileAt(p) == CHOOSE x \in files : x.path = p

\* ------------------------------------------------------- check_and_raise
\* the outcomes of check_and_raise(check): check is None (returns None),
\* check() is true (returns True), check() is false (raises)
check_and_raise ==
    CASE check = "None" -> {"None"}
      [] check = "lambda" -> {"True"}
      [] OTHER -> {"True", "raise"}

\* requests.get either returns a response or raises (camera unreachable)
requests_get == {"ok", "raise"}

\* ------------------------------------------------------------ the stage
\* entering download_all_images: its locals, and the bookkeeping of the run
EnterStage ==
    /\ pc' = "start"
    /\ listing' = <<>>
    /\ idx' = 0
    /\ is_first' = TRUE
    /\ count' = 1
    /\ target_path_tmp' = NoPath
    /\ transfer' = "none"
    /\ deleteReqs' = <<>>
    /\ dlStarted' = 0
    /\ dlDone' = 0
    /\ failed' = FALSE
    /\ byLimit' = FALSE
    /\ runs' = IF runs < MaxRuns THEN runs + 1 ELSE runs
    /\ prev' = [listing |-> listing, returned |-> pc = "done",
                failed |-> failed, byLimit |-> byLimit]
    /\ markers0' = markers
    /\ UNCHANGED <<fetched, opts, world>>

\* lines 118-120 with the directories made before the check is evaluated
Start_mkdirs_first ==
    /\ UNCHANGED procv
    /\ pc = "start"
    /\ dirs' = dirs \cup {"target_dir", "progress_dir"}
    /\ \E r \in check_and_raise : pc' = IF r = "raise" THEN "raised" ELSE "for"
    /\ UNCHANGED <<camera, files, markers, listing, idx, is_first, count,
                   target_path_tmp, transfer, hist, runhist, opts, loopv>>

\* lines 115-122
Start ==
    /\ UNCHANGED procv
    /\ pc = "start"
    /\ \E r \in check_and_raise :
         \/ /\ r = "raise"
            /\ pc' = "raised"
            /\ dirs' = dirs
         \/ /\ r = "True"
            /\ dirs' = dirs \cup {"target_dir", "progress_dir"}
            /\ pc' = "for"
         \/ /\ r = "None"
            /\ dirs' = dirs
            /\ pc' = "for"
    /\ UNCHANGED <<camera, files, markers, listing, idx, is_first, count,
                   target_path_tmp, transfer, hist, runhist, opts, loopv>>

\* the listing the generator yields; list_images fetches the base index at
\* its first next() and each directory page when it reaches that directory
CurrentListing == IF idx = 0 THEN list_images(camera) ELSE listing

\* the generator issues an HTTP request before it yields its next image
ListingRequest(L) ==
    \/ idx = 0
    \/ idx > 0 /\ idx < Len(L) /\ L[idx + 1].dir # L[idx].dir

\* line 127 with the skip_existing test negated
SkipPath_negated(url) == ~skip_existing /\ progress_filepath(url) \in markers

\* line 127
SkipPath(url) == skip_existing /\ progress_filepath(url) \in markers

\* line 123: the for statement takes the next image of the generator
For ==
    /\ UNCHANGED procv
    /\ pc = "for"
    /\ LET L == CurrentListing IN
       \/ /\ ListingRequest(L)
          /\ pc' = "raised"
          /\ UNCHANGED <<listing, idx>>
       \/ /\ idx = Len(L)
          /\ pc' = "done"
          /\ listing' = L
          /\ idx' = idx
       \/ /\ idx < Len(L)
          /\ listing' = L
          /\ idx' = idx + 1
          /\ pc' = IF SkipPath(L[idx + 1]) THEN "skip" ELSE "download"
    /\ UNCHANGED <<world, is_first, count, target_path_tmp, transfer, hist,
                   runhist, opts, loopv>>

\* lines 198-203: the delete request for url reaches the camera
delete_image(url) ==
    /\ deleteReqs' = Append(deleteReqs, rel_path(url))
    /\ camera' = camera \ {rel_path(url)}

\* the skip path without the is_first test
SkipDeletes_newest_too == delete_after_download

\* lines 129-133: the skip path deletes unless the image is the newest
SkipDeletes == delete_after_download /\ ~is_first

\* lines 127-135
Skip ==
    /\ UNCHANGED procv
    /\ pc = "skip"
    /\ \/ /\ SkipDeletes
          /\ \E r \in requests_get :
               \/ /\ r = "raise"
                  /\ pc' = "raised"
                  /\ UNCHANGED <<deleteReqs, camera, is_first>>
               \/ /\ r = "ok"
                  /\ delete_image(image_url)
                  /\ is_first' = FALSE
                  /\ pc' = "for"
       \/ /\ ~SkipDeletes
          /\ is_first' = FALSE
          /\ pc' = "for"
          /\ UNCHANGED <<deleteReqs, camera>>
    /\ UNCHANGED <<dirs, files, markers, listing, idx, count, target_path_tmp,
                   transfer, fetched, dlStarted, dlDone, failed, byLimit,
                   runhist, opts, loopv>>

\* line 141 without the is_first test
real_delete_after_download_newest_too == delete_after_download

\* line 141
real_delete_after_download == delete_after_download /\ ~is_first

\* lines 136-147 and 164-176: download() is entered and evaluates the check
Download ==
    /\ UNCHANGED procv
    /\ pc = "download"
    /\ \E r \in check_and_raise :
         pc' = IF r = "raise" THEN "raised" ELSE "get"
    /\ transfer' = "none"
    /\ UNCHANGED <<world, listing, idx, is_first, count, target_path_tmp,
                   hist, runhist, opts, loopv>>

\* line 179 opening the final staging name instead of the temporary one
WritePath_final(url, u) == TargetPathDl(url)

\* line 179: the path the response body is written to
WritePath(url, u) == TargetPathTmp(url, u)

\* lines 177-179: the GET of the image, then open(target_path_tmp, 'wb'),
\* which fails (and is caught at line 183) when target_dir does not exist
Get ==
    /\ UNCHANGED procv
    /\ pc = "get"
    /\ \E r \in requests_get :
         \/ /\ r = "raise"
            /\ pc' = "raised"
            /\ UNCHANGED <<files, target_path_tmp, dlStarted, failed,
                           transfer>>
         \/ /\ r = "ok"
            /\ "target_dir" \notin dirs
            /\ dlStarted' = dlStarted + 1
            /\ failed' = TRUE
            /\ transfer' = "failed"
            /\ pc' = "after"
            /\ UNCHANGED <<files, target_path_tmp>>
         \/ /\ r = "ok"
            /\ "target_dir" \in dirs
            /\ dlStarted' = dlStarted + 1
            /\ \E u \in Uuids :
                 /\ target_path_tmp' = WritePath(image_url, u)
                 /\ files' = Put(files, WritePath(image_url, u),
                                 rel_path(image_url), 0)
            /\ pc' = "stream"
            /\ UNCHANGED <<failed, transfer>>
    /\ UNCHANGED <<camera, dirs, markers, listing, idx, is_first, count,
                   deleteReqs, fetched, dlDone, byLimit, runhist, opts, loopv>>

\* lines 183-188: the handler of a failed transfer removes the temporary file
RemoveTmp == Remove(files, target_path_tmp)

\* lines 190-192: the finished temporary file is moved to its final name
MoveToFinal == Move(files, target_path_tmp, TargetPathDl(image_url))

\* lines 180-195: one chunk is written, or the transfer fails, or the body
\* has ended and the file is moved into place
Stream ==
    /\ UNCHANGED procv
    /\ pc = "stream"
    /\ LET n == FileAt(target_path_tmp).n IN
       \/ /\ n < NumChunks
          /\ files' = Put(files, target_path_tmp, rel_path(image_url), n + 1)
          /\ UNCHANGED <<pc, target_path_tmp, fetched, dlDone, failed,
                         transfer>>
       \/ /\ n < NumChunks
          /\ files' = RemoveTmp
          /\ failed' = TRUE
          /\ transfer' = "failed"
          /\ target_path_tmp' = NoPath
          /\ pc' = "after"
          /\ UNCHANGED <<fetched, dlDone>>
       \/ /\ n = NumChunks
          /\ files' = MoveToFinal
          /\ target_path_tmp' = NoPath
          /\ fetched' = fetched \cup {rel_path(image_url)}
          /\ dlDone' = dlDone + 1
          /\ pc' = IF real_delete_after_download THEN "delete" ELSE "after"
          /\ transfer' = "ok"
          /\ failed' = failed
    /\ UNCHANGED <<camera, dirs, markers, listing, idx, is_first, count,
                   deleteReqs, dlStarted, byLimit, runhist, opts, loopv>>

\* lines 193-194
Delete ==
    /\ UNCHANGED procv
    /\ pc = "delete"
    /\ \E r \in requests_get :
         \/ /\ r = "raise"
            /\ pc' = "raised"
            /\ UNCHANGED <<deleteReqs, camera>>
         \/ /\ r = "ok"
            /\ delete_image(image_url)
            /\ pc' = "after"
    /\ UNCHANGED <<dirs, files, markers, listing, idx, is_first, count,
                   target_path_tmp, transfer, fetched, dlStarted, dlDone,
                   failed, byLimit, runhist, opts, loopv>>

\* line 149 without the test that the staged file exists
MarkerDue_always == TRUE

\* line 149: download() returns target_path_dl on every path
MarkerDue == Exists(TargetPathDl(image_url))

\* line 157
LimitReached(c) == limit # 0 /\ c > limit

\* lines 148-158
After ==
    /\ UNCHANGED procv
    /\ pc = "after"
    /\ count' = count + 1
    /\ IF MarkerDue
       THEN /\ markers' = markers \cup {progress_filepath(image_url)}
            /\ dirs' = dirs \cup {"progress_dir"}
       ELSE UNCHANGED <<markers, dirs>>
    /\ is_first' = FALSE
    /\ IF LimitReached(count + 1)
       THEN pc' = "done" /\ byLimit' = TRUE
       ELSE pc' = "sleep" /\ byLimit' = byLimit
    /\ transfer' = "none"
    /\ UNCHANGED <<camera, files, listing, idx, target_path_tmp, deleteReqs,
                   fetched, dlStarted, dlDone, failed, runhist, opts, loopv>>

\* lines 160-161
Sleep ==
    /\ UNCHANGED procv
    /\ pc = "sleep"
    /\ pc' = "for"
    /\ UNCHANGED <<world, listing, idx, is_first, count, target_path_tmp,
                   transfer, hist, runhist, opts, loopv>>

Stage == Start \/ For \/ Skip \/ Download \/ Get \/ Stream \/ Delete
         \/ After \/ Sleep

\* ---------------------------------------------------------- cli_download
\* line 741: the command without --loop calls the stage once; the command
\* is run again by its user, on the same directories
cli_download ==
    /\ UNCHANGED procv
    /\ lpc = "cli"
    /\ pc \in {"idle", "done", "raised"}
    /\ runs < MaxRuns
    /\ EnterStage
    /\ UNCHANGED loopv

Init ==
    /\ ProcIdle
    /\ skip_existing \in BOOLEAN
    /\ delete_after_download \in BOOLEAN
    /\ limit \in Limits
    /\ check \in {"None", "partial"}
    /\ camera \in SUBSET RelPaths
    /\ dirs \in {{}, {"target_dir", "progress_dir"}}
    /\ files = {}
    /\ markers = {}
    /\ pc = "idle"
    /\ listing = <<>>
    /\ idx = 0
    /\ is_first = TRUE
    /\ count = 1
    /\ target_path_tmp = NoPath
    /\ transfer = "none"
    /\ deleteReqs = <<>>
    /\ fetched = {}
    /\ dlStarted = 0
    /\ dlDone = 0
    /\ failed = FALSE
    /\ byLimit = FALSE
    /\ runs = 0
    /\ prev = [listing |-> <<>>, returned |-> FALSE, failed |-> FALSE,
               byLimit |-> FALSE]
    /\ markers0 = {}
    /\ cmd = "download"
    /\ hard_exit = FALSE
    /\ lpc = "cli"
    /\ outcome = "none"

Next ==
    \/ cli_download
    \/ Start
    \/ For
    \/ Skip
    \/ Download
    \/ Get
    \/ Stream
    \/ Delete
    \/ After
    \/ Sleep

Spec == Init /\ [][Next]_vars

\* ------------------------------------------------------- the poll loops
\* download_loop (502-524), process_loop (527-549), upload_loop (691-713)
\* and the main loop of runit.py (8-32) have one shape; cmd names the loop.
Loops == {"download", "process", "upload", "runit"}

\* lines 508 / 533 / 697, runit.py 13: the value of check() in the loop
check_values == IF check = "lambda" THEN {TRUE} ELSE BOOLEAN

\* lines 508-516: the check at the head of an iteration
LoopCheck ==
    /\ UNCHANGED procv
    /\ lpc = "check"
    /\ \E ok \in check_values : lpc' = IF ok THEN "try" ELSE "gated"
    /\ UNCHANGED <<opts, world, locals, hist, runhist, cmd, hard_exit,
                   outcome>>

\* lines 513-516 with the stage called after the sleep, without `continue`
GatedSleep_nocheck ==
    /\ UNCHANGED procv
    /\ lpc = "gated"
    /\ lpc' = IF hard_exit THEN "exited" ELSE "try"
    /\ UNCHANGED <<opts, world, locals, hist, runhist, cmd, hard_exit,
                   outcome>>

\* lines 513-516: sleep mount_check_fail_sleep_duration, then exit or continue
GatedSleep ==
    /\ UNCHANGED procv
    /\ lpc = "gated"
    /\ lpc' = IF hard_exit THEN "exited" ELSE "check"
    /\ UNCHANGED <<opts, world, locals, hist, runhist, cmd, hard_exit,
                   outcome>>

\* line 518: download_loop calls download_all_images(**kwargs)
TryDownload ==
    /\ UNCHANGED procv
    /\ lpc = "try"
    /\ cmd = "download"
    /\ EnterStage
    /\ lpc' = "stage"
    /\ UNCHANGED <<cmd, hard_exit, outcome>>

\* lines 543 / 707, runit.py 21: the other loops call their stage
TryOther ==
    /\ UNCHANGED procv
    /\ lpc = "try"
    /\ cmd # "download"
    /\ lpc' = "stage"
    /\ runs' = IF runs < MaxRuns THEN runs + 1 ELSE runs
    /\ UNCHANGED <<opts, world, locals, hist, prev, markers0, cmd, hard_exit,
                   outcome>>

\* how a stage called by a loop can end. process_all_images (388-397) and
\* upload2 (646-688) are finite loops over a directory listing that return
\* or raise; runit.py calls download_all_images without its required
\* progress_dir argument, which raises TypeError at the call
stage_ends ==
    CASE cmd = "download" -> IF pc = "raised" THEN {"raised"} ELSE {"returned"}
      [] cmd = "runit" -> {"raised"}
      [] OTHER -> {"returned", "raised"}

\* lines 517-521 without the except clause: the exception leaves the loop
AfterStage_uncaught(end) == IF end = "raised" THEN "exited" ELSE "sleep"

\* lines 517-521: try / except Exception: the loop goes on to its sleep
AfterStage(end) == "sleep"

\* lines 517-522: the stage has returned or raised
StageEnds ==
    /\ UNCHANGED procv
    /\ lpc = "stage"
    /\ cmd = "download" => pc \in {"done", "raised"}
    /\ \E end \in stage_ends :
         /\ outcome' = end
         /\ lpc' = AfterStage(end)
    /\ UNCHANGED <<opts, world, locals, hist, runhist, cmd, hard_exit>>

\* lines 521-524 without the test of hard_exit: the loop always goes on
LoopSleep_noexit ==
    /\ UNCHANGED procv
    /\ lpc = "sleep"
    /\ lpc' = "check"
    /\ UNCHANGED <<opts, world, locals, hist, runhist, cmd, hard_exit,
                   outcome>>

\* lines 521-524: sleep the stage's duration, then exit or loop
LoopSleep ==
    /\ UNCHANGED procv
    /\ lpc = "sleep"
    /\ lpc' = IF hard_exit THEN "exited" ELSE "check"
    /\ UNCHANGED <<opts, world, locals, hist, runhist, cmd, hard_exit,
                   outcome>>

\* the cameras the loop specification starts from: one directory
LoopCameras == SUBSET {r \in RelPaths : r.dir = 101}

LoopInit ==
    /\ ProcIdle
    /\ cmd \in Loops
    /\ hard_exit \in BOOLEAN
    /\ lpc = "check"
    /\ outcome = "none"
    /\ skip_existing = TRUE
    /\ check \in IF cmd = "runit" THEN {"partial"} ELSE {"lambda", "partial"}
    /\ IF cmd = "download"
       THEN /\ delete_after_download \in BOOLEAN
            /\ limit \in Limits
            /\ camera \in LoopCameras
       ELSE /\ delete_after_download = FALSE
            /\ limit = 0
            /\ camera = {}
    /\ dirs = {}
    /\ files = {}
    /\ markers = {}
    /\ pc = "idle"
    /\ listing = <<>>
    /\ idx = 0
    /\ is_first = TRUE
    /\ count = 1
    /\ target_path_tmp = NoPath
    /\ transfer = "none"
    /\ deleteReqs = <<>>
    /\ fetched = {}
    /\ dlStarted = 0
    /\ dlDone = 0
    /\ failed = FALSE
    /\ byLimit = FALSE
    /\ runs = 0
    /\ prev = [listing |-> <<>>, returned |-> FALSE, failed |-> FALSE,
               byLimit |-> FALSE]
    /\ markers0 = {}

LoopNext ==
    \/ LoopCheck
    \/ GatedSleep
    \/ TryDownload
    \/ TryOther
    \/ StageEnds
    \/ LoopSleep
    \/ Start
    \/ For
    \/ Skip
    \/ Download
    \/ Get
    \/ Stream
    \/ Delete
    \/ After
    \/ Sleep

\* the process is sequential and each step ends: a sleep returns, a request
\* returns or raises, a stage returns or raises
LoopSpec == LoopInit /\ [][LoopNext]_vars /\ WF_vars(LoopNext)

\* ------------------------------------------------------------- strings
\* A Python string is modelled as a sequence of one-character strings, so
\* that slicing, splitting, comparing and joining are done on characters.
\* A recursion over a string is written as a function (ZeroPadded, IntOf,
\* Less, Joined, Sorted, Planned) applied by the operator of the source's
\* name, so that each argument is evaluated once, to a value.
DigitChars == <<"0", "1", "2", "3", "4", "5", "6", "7", "8", "9">>

\* '{}'.format(n) / str(n) of a natural number
RECURSIVE Digits(_)
Digits(n) ==
    IF n < 10 THEN <<DigitChars[n + 1]>>
    ELSE Digits(n \div 10) \o <<DigitChars[(n % 10) + 1]>>

\* a strftime field of width w: zero padded
ZeroPadded[cs \in Seq(STRING), w \in Nat] ==
    IF Len(cs) >= w THEN cs ELSE ZeroPadded[<<"0">> \o cs, w]
ZeroPad(cs, w) == ZeroPadded[cs, w]

\* int() of a string of digits; -1 when a character is not a digit
DigitValue(c) ==
    IF \E d \in 1..10 : DigitChars[d] = c
    THEN (CHOOSE d \in 1..10 : DigitChars[d] = c) - 1
    ELSE -1

IntOf[cs \in Seq(STRING)] ==
    IF cs = <<>> THEN -1
    ELSE IF Len(cs) = 1 THEN DigitValue(cs[1])
    ELSE LET hd == IntOf[SubSeq(cs, 1, Len(cs) - 1)]
             d == DigitValue(cs[Len(cs)])
         IN IF hd < 0 \/ d < 0 THEN -1 ELSE hd * 10 + d
ParseInt(cs) == IntOf[cs]

\* the ordinal of a character, for the characters of size labels
Ord(c) == IF c = "x" THEN 120 ELSE 48 + DigitValue(c)

\* a < b for Python strings: lexicographic on the ordinals
Less[a \in Seq(STRING), b \in Seq(STRING)] ==
    IF b = <<>> THEN FALSE
    ELSE IF a = <<>> THEN TRUE
    ELSE IF a[1] = b[1] THEN Less[Tail(a), Tail(b)]
    ELSE Ord(a[1]) < Ord(b[1])
StrLess(a, b) == Less[a, b]

\* sep.join(parts), also os.path.join for relative parts
Joined[sep \in Seq(STRING), parts \in Seq(Seq(STRING))] ==
    IF parts = <<>> THEN <<>>
    ELSE IF Len(parts) = 1 THEN parts[1]
    ELSE parts[1] \o sep \o Joined[sep, Tail(parts)]
Join(sep, parts) == Joined[sep, parts]

\* the positions of character c in cs
Positions(cs, c) == {i \in 1..Len(cs) : cs[i] = c}
LastPos(cs, c) == CHOOSE i \in Positions(cs, c) : \A j \in Positions(cs, c) : j <= i

\* cs.split(c)
RECURSIVE Split(_, _)
Split(cs, c) ==
    IF Positions(cs, c) = {} THEN <<cs>>
    ELSE LET i == LastPos(cs, c)
         IN Split(SubSeq(cs, 1, i - 1), c) \o <<SubSeq(cs, i + 1, Len(cs))>>

\* cs[n:]
DropFirst(cs, n) == SubSeq(cs, n + 1, Len(cs))

StartsWith(cs, p) == Len(cs) >= Len(p) /\ SubSeq(cs, 1, Len(p)) = p
EndsWith(cs, p) ==
    Len(cs) >= Len(p) /\ SubSeq(cs, Len(cs) - Len(p) + 1, Len(cs)) = p

\* str.lower() on the letters that occur in the file names of the model
LowerChar(c) ==
    CASE c = "J" -> "j" [] c = "P" -> "p" [] c = "G" -> "g"
      [] c = "I" -> "i" [] c = "M" -> "m" [] OTHER -> c
Lower(cs) == [i \in 1..Len(cs) |-> LowerChar(cs[i])]

\* os.path.basename and os.path.dirname
basename(path) ==
    IF Positions(path, "/") = {} THEN path
    ELSE DropFirst(path, LastPos(path, "/"))
dirname(path) ==
    IF Positions(path, "/") = {} THEN <<>>
    ELSE SubSeq(path, 1, LastPos(path, "/") - 1)

\* os.path.splitext: the extension starts at the last dot of the name,
\* unless that dot is its first character
splitext(name) ==
    IF Positions(name, ".") = {} \/ LastPos(name, ".") = 1
    THEN <<name, <<>>>>
    ELSE <<SubSeq(name, 1, LastPos(name, ".") - 1),
           SubSeq(name, LastPos(name, "."), Len(name))>>

\* the string the characters spell
RECURSIVE Text(_)
Text(cs) == IF cs = <<>> THEN "" ELSE cs[1] \o Text(Tail(cs))

\* ------------------------------------------------- capture time and names
\* the characters of some literals of the source
Dot == <<".">>
Slash == <<"/">>
Dash == <<"-">>
original == <<"o", "r", "i", "g", "i", "n", "a", "l">>
DRYRUN_MD5 == <<"D", "R", "Y", "R", "U", "N", "-", "M", "D", "5">>
dot_jpg == <<".", "j", "p", "g">>

\* lines 54-55: the EXIF tag has the shape '%Y:%m:%d %H:%M:%S'
WellFormedTag(cs) ==
    /\ Len(cs) = 19
    /\ cs[5] = ":" /\ cs[8] = ":" /\ cs[11] = " "
    /\ cs[14] = ":" /\ cs[17] = ":"
    /\ ParseInt(SubSeq(cs, 1, 4)) >= 1900
    /\ ParseInt(SubSeq(cs, 6, 7)) \in 1..12
    /\ ParseInt(SubSeq(cs, 9, 10)) \in 1..31
    /\ ParseInt(SubSeq(cs, 12, 13)) \in 0..23
    /\ ParseInt(SubSeq(cs, 15, 16)) \in 0..59
    /\ ParseInt(SubSeq(cs, 18, 19)) \in 0..59

\* lines 54-55: strptime(datetime_str + 'UTC', '%Y:%m:%d %H:%M:%S%Z')
strptime(cs) ==
    [year |-> ParseInt(SubSeq(cs, 1, 4)),
     month |-> ParseInt(SubSeq(cs, 6, 7)),
     day |-> ParseInt(SubSeq(cs, 9, 10)),
     hour |-> ParseInt(SubSeq(cs, 12, 13)),
     minute |-> ParseInt(SubSeq(cs, 15, 16)),
     second |-> ParseInt(SubSeq(cs, 18, 19))]

\* lines 51-56: the exception extract_exif_date raises for a file: KeyError
\* when the tag is missing, ValueError when strptime rejects it, none ("")
exif_error(file) ==
    IF file.tag = <<>> THEN "KeyError"
    ELSE IF ~WellFormedTag(file.tag) THEN "ValueError"
    ELSE ""

\* lines 51-56: the capture time of a file whose tag is well formed
extract_exif_date(file) == strptime(file.tag)

\* line 309: strftime('%Y-%m-%d') and strftime('%Y-%m-%d_%H-%M-%S')
datetime_to_datetimestr(dt) ==
    LET date == Join(Dash, <<ZeroPad(Digits(dt.year), 4),
                             ZeroPad(Digits(dt.month), 2),
                             ZeroPad(Digits(dt.day), 2)>>)
        time == Join(Dash, <<ZeroPad(Digits(dt.hour), 2),
                             ZeroPad(Digits(dt.minute), 2),
                             ZeroPad(Digits(dt.second), 2)>>)
    IN <<date, date \o <<"_">> \o time>>

\* lines 59-66: the hex digest of the file's bytes; the bytes of a file are
\* represented by their digest
md5(file, dryrun) == IF dryrun THEN DRYRUN_MD5 ELSE file.content

\* lines 312-325 with the extension kept as splitext returns it
generate_relative_image_path_keepdot(source_file, source_filename, shot_at, resolution, dryrun) ==
    LET extension == splitext(source_filename)[2]
        new_filename == Join(Dot, <<datetime_to_datetimestr(shot_at)[2],
                                    splitext(source_filename)[1],
                                    resolution,
                                    md5(source_file, dryrun),
                                    extension>>)
    IN Join(Slash, <<datetime_to_datetimestr(shot_at)[1], new_filename>>)

\* lines 312-325
generate_relative_image_path(source_file, source_filename, shot_at, resolution, dryrun) ==
    LET extension == DropFirst(splitext(source_filename)[2], 1)
        new_filename == Join(Dot, <<datetime_to_datetimestr(shot_at)[2],
                                    splitext(source_filename)[1],
                                    resolution,
                                    md5(source_file, dryrun),
                                    extension>>)
    IN Join(Slash, <<datetime_to_datetimestr(shot_at)[1], new_filename>>)

\* lines 343-353 and 289-299: os.path.join(target_dir, <size>, <relative path>)
canonical_path(root, source_file, source_filename, shot_at, resolution, dryrun) ==
    Join(Slash, <<root, resolution,
                  generate_relative_image_path(source_file, source_filename,
                                               shot_at, resolution, dryrun)>>)

\* ------------------------------------------------------- resize_images
\* '{w}x{h}': the label of a size
Label(w, h) == Digits(w) \o <<"x">> \o Digits(h)

\* the width a label names
LabelWidth(label) == ParseInt(Split(label, "x")[1])

\* line 360: the sizes process_image asks for
process_resolutions == <<Label(640, 480), Label(320, 240), Label(160, 120)>>

\* line 264: sorted(resolutions, reverse=True), a sort of strings
Sorted[s \in Seq(Seq(STRING))] ==
    IF s = <<>> THEN <<>>
    ELSE LET i == CHOOSE i \in 1..Len(s) :
                      \A j \in 1..Len(s) : ~StrLess(s[i], s[j])
         IN <<s[i]>> \o Sorted[SubSeq(s, 1, i - 1) \o SubSeq(s, i + 1, Len(s))]
sorted_reverse(s) == Sorted[s]

\* tempfile.mkdtemp(): the path of the temporary directory
tmpdir_path == <<"/", "t", "m", "p", "/", "d">>

\* line 272: os.path.join(tmpdir, '{}-{}'.format(resolution, source_filename))
res_target_file(resolution, source_filename) ==
    Join(Slash, <<tmpdir_path, resolution \o Dash \o source_filename>>)

\* lines 274-278: imgs[resolution] = {...} on an OrderedDict: a new key is
\* appended, an existing key keeps its place and gets the new value
SetItem(d, entry) ==
    IF \E i \in 1..Len(d) : d[i].resolution = entry.resolution
    THEN [i \in 1..Len(d) |->
             IF d[i].resolution = entry.resolution THEN entry ELSE d[i]]
    ELSE Append(d, entry)

\* lines 265-278: the plan of the cascade; each size reads the file the size
\* before it in the sorted list writes, the first one reads source_file
Plans == Seq([source_file : Seq(STRING), tmp_target_file : Seq(STRING),
              resolution : Seq(STRING)])
Planned[resolutions \in Seq(Seq(STRING)), next_res_source_file \in Seq(STRING), source_filename \in Seq(STRING), d \in Plans] ==
    IF resolutions = <<>> THEN d
    ELSE LET resolution == Head(resolutions)
             target == res_target_file(resolution, source_filename)
         IN Planned[Tail(resolutions), target, source_filename,
                    SetItem(d, [source_file |-> next_res_source_file,
                                tmp_target_file |-> target,
                                resolution |-> resolution])]
plan(resolutions, next_res_source_file, source_filename, d) == Planned[resolutions, next_res_source_file, source_filename, d]

\* the bytes convert writes for a size: the bytes read and the size
Converted(content, resolution) == content \o <<"-">> \o resolution

\* -------------------------------------------------------- process_image
\* the values of --target-dir and --source-dir
target_dir == <<"/", "t">>
source_dir == <<"/", "s">>

\* a directory is a set of files: path, bytes (their digest), EXIF tag
\* (empty when the file has none) and whether convert can read the file
HasPath(F, p) == \E f \in F : f.path = p
FileOf(F, p) == CHOOSE f \in F : f.path = p
PutFile(F, f) == {x \in F : x.path # f.path} \cup {f}

\* os.listdir(d): the names of the entries of directory d, in any order
listdir(F, d) == {basename(f.path) : f \in {x \in F : dirname(x.path) = d}}
Orders(S) == {s \in [1..Cardinality(S) -> S] : Range(s) = S}

\* reversed(s)
RECURSIVE Reverse(_)
Reverse(s) == IF s = <<>> THEN <<>> ELSE Reverse(Tail(s)) \o <<Head(s)>>

\* lines 391-396 and 400-406: a file, not hidden, named *.jpg
_is_image(F, directory, filename) ==
    /\ HasPath(F, Join(Slash, <<directory, filename>>))
    /\ ~StartsWith(filename, Dot)
    /\ EndsWith(Lower(filename), dot_jpg)

fetchv == <<opts, world, locals, hist, runhist>>

\* the statement after a call of process_image, by its caller
ReturnTo(who) ==
    CASE who = "process_all_images" -> "pass"
      [] who = "reprocess_daydir" -> "day"
      [] OTHER -> "returned"

\* process_image(source_file=path, source_filename=name, ...) is called
call_process_image(path, name, who) ==
    /\ img' = [source_file |-> path, source_filename |-> name,
               shot_at |-> <<>>, new_path |-> <<>>, resolutions |-> <<>>]
    /\ caller' = who
    /\ called' = called \cup {path}
    /\ ppc' = "begin"

\* line 354 without the test
SkipExisting_never(new_path) == FALSE

\* line 354: skip_existing and os.path.exists(new_path)
SkipExisting(new_path) == skip_existing /\ HasPath(tree, new_path)

\* lines 339-360: the capture time, the canonical path of the original, the
\* skip of an image already placed
process_image_begin ==
    /\ ppc = "begin"
    /\ LET file == FileOf(staged, img.source_file)
           source_filename == IF img.source_filename # <<>>
                              THEN img.source_filename
                              ELSE basename(img.source_file)
       IN IF exif_error(file) # ""
          THEN ppc' = "raised" /\ UNCHANGED img
          ELSE LET shot_at == extract_exif_date(file)
                   new_path == canonical_path(target_dir, file, source_filename,
                                              shot_at, original, kwargs.dryrun)
               IN /\ img' = [img EXCEPT !.source_filename = source_filename,
                                        !.shot_at = shot_at,
                                        !.new_path = new_path,
                                        !.resolutions = process_resolutions]
                  /\ ppc' = IF SkipExisting(new_path) THEN ReturnTo(caller)
                            ELSE IF kwargs.resize THEN "resize_images"
                            ELSE "place"
    /\ UNCHANGED <<kwargs, staged, tree, tmpdir, caller, todo, imgs, k, called>>
    /\ UNCHANGED <<fetchv, loopv>>

\* lines 263-278: the temporary directory is made and the cascade planned
resize_images_enter ==
    /\ ppc = "resize_images"
    /\ tmpdir' = [made |-> TRUE, files |-> {}]
    /\ imgs' = plan(sorted_reverse(img.resolutions), img.source_file,
                    img.source_filename, <<>>)
    /\ k' = 1
    /\ ppc' = IF img.resolutions = <<>> THEN "leave" ELSE "resize"
    /\ UNCHANGED <<kwargs, staged, tree, caller, todo, img, called>>
    /\ UNCHANGED <<fetchv, loopv>>

\* convert can exit with 0 only when its input exists and is an image it
\* can read
ReadableJpeg(p) == \E f \in staged \cup tmpdir.files : f.path = p /\ f.jpeg

\* lines 233-236 and 243-247: the exit status of the tools for one size:
\* zero for both, non-zero for convert, or non-zero for jpegoptim
tool_exit(p) ==
    IF ReadableJpeg(p) THEN {"zero", "convert", "jpegoptim"} ELSE {"convert"}

\* lines 42-48 with the finally clause left out
rmtree_skipped(t) == t

\* lines 42-48: finally: shutil.rmtree(d)
rmtree(t) == NoTmp

\* line 279: the next img of the first loop, or the second loop
AdvanceResize ==
    IF k < Len(imgs) THEN ppc' = "resize" /\ k' = k + 1
    ELSE ppc' = "move" /\ k' = 1

\* lines 279-287 and 223-248: one img of the first loop: the check, then
\* resize_image (convert and jpegoptim, or their echo with dryrun)
resize_one ==
    /\ ppc = "resize"
    /\ \E r \in check_and_raise :
         IF r = "raise"
         THEN ppc' = "unwind" /\ UNCHANGED <<k, tmpdir>>
         ELSE IF kwargs.dryrun
         THEN AdvanceResize /\ UNCHANGED tmpdir
         ELSE \E exit \in tool_exit(imgs[k].source_file) :
         IF exit = "convert"
         THEN ppc' = "failed" /\ UNCHANGED <<k, tmpdir>>
         ELSE /\ tmpdir' =
                   [tmpdir EXCEPT !.files =
                       PutFile(@, [path |-> imgs[k].tmp_target_file,
                                   content |-> Converted(
                                       FileOf(staged \cup tmpdir.files,
                                              imgs[k].source_file).content,
                                       imgs[k].resolution),
                                   tag |-> <<>>,
                                   jpeg |-> TRUE])]
              /\ IF exit = "jpegoptim"
                 THEN ppc' = "failed" /\ UNCHANGED k
                 ELSE AdvanceResize
    /\ UNCHANGED <<kwargs, staged, tree, caller, todo, img, imgs, called>>
    /\ UNCHANGED <<fetchv, loopv>>

\* line 288 with the second loop left after its first img
AdvanceMove_first_only == ppc' = "leave" /\ k' = k

\* line 288: the next img of the second loop, or the end of the with block
AdvanceMove ==
    IF k < Len(imgs) THEN ppc' = "move" /\ k' = k + 1
    ELSE ppc' = "leave" /\ k' = k

\* lines 288-305: one img of the second loop: its canonical path, then the
\* check, mkdirs and the move out of the temporary directory
move_one ==
    /\ ppc = "move"
    /\ IF kwargs.dryrun
       THEN AdvanceMove /\ UNCHANGED <<tree, tmpdir>>
       ELSE \E r \in check_and_raise :
              IF r = "raise"
              THEN ppc' = "unwind" /\ UNCHANGED <<k, tree, tmpdir>>
              ELSE LET f == FileOf(tmpdir.files, imgs[k].tmp_target_file)
                       target_file ==
                           canonical_path(target_dir, f, img.source_filename,
                                          img.shot_at, imgs[k].resolution,
                                          kwargs.dryrun)
                   IN /\ tree' = PutFile(tree, [f EXCEPT !.path = target_file])
                      /\ tmpdir' = [tmpdir EXCEPT !.files = @ \ {f}]
                      /\ AdvanceMove
    /\ UNCHANGED <<kwargs, staged, caller, todo, img, imgs, called>>
    /\ UNCHANGED <<fetchv, loopv>>

\* lines 42-48 and 263: the with block is left, by its end or by an
\* exception: shutil.rmtree of the temporary directory
resize_images_exit ==
    /\ ppc \in {"leave", "unwind", "failed"}
    /\ tmpdir' = rmtree(tmpdir)
    /\ ppc' = IF ppc \in {"unwind", "failed"} THEN "raised"
              ELSE IF caller = "none" THEN "returned"
              ELSE "place"
    /\ UNCHANGED <<kwargs, staged, tree, caller, todo, img, imgs, k, called>>
    /\ UNCHANGED <<fetchv, loopv>>

\* lines 371-385: the original is copied or moved to its canonical path
place ==
    /\ ppc = "place"
    /\ IF kwargs.dryrun
       THEN ppc' = ReturnTo(caller) /\ UNCHANGED <<tree, staged>>
       ELSE \E r \in check_and_raise :
              IF r = "raise"
              THEN ppc' = "raised" /\ UNCHANGED <<tree, staged>>
              ELSE LET file == FileOf(staged, img.source_file)
                   IN /\ tree' = PutFile(tree, [file EXCEPT !.path = img.new_path])
                      /\ staged' = IF kwargs.copy THEN staged
                                   ELSE staged \ {file}
                      /\ ppc' = ReturnTo(caller)
    /\ UNCHANGED <<kwargs, tmpdir, caller, todo, img, imgs, k, called>>
    /\ UNCHANGED <<fetchv, loopv>>

\* ------------------------------------------- the naming function by itself
\* the fetch stage and its loops are not running (the process commands)
FetchIdle ==
    /\ skip_existing = TRUE
    /\ delete_after_download = FALSE
    /\ limit = 0
    /\ camera = {}
    /\ dirs = {}
    /\ files = {}
    /\ markers = {}
    /\ pc = "idle"
    /\ listing = <<>>
    /\ idx = 0
    /\ is_first = TRUE
    /\ count = 1
    /\ target_path_tmp = NoPath
    /\ transfer = "none"
    /\ deleteReqs = <<>>
    /\ fetched = {}
    /\ dlStarted = 0
    /\ dlDone = 0
    /\ failed = FALSE
    /\ byLimit = FALSE
    /\ runs = 0
    /\ prev = [listing |-> <<>>, returned |-> FALSE, failed |-> FALSE,
               byLimit |-> FALSE]
    /\ markers0 = {}

\* the arguments the naming function is applied to
NameDates ==
    {[year |-> 2023, month |-> 5, day |-> 1, hour |-> 10, minute |-> 0,
      second |-> 0],
     [year |-> 2016, month |-> 12, day |-> 31, hour |-> 23, minute |-> 59,
      second |-> 59],
     [year |-> 2023, month |-> 11, day |-> 9, hour |-> 0, minute |-> 7,
      second |-> 5]}
NameStems == {<<"I", "M", "G", "1">>,
              <<"G", "0", "0", "1", "0", "0", "0", "1">>,
              <<"a", ".", "b">>}
NameExts == {<<"j", "p", "g">>, <<"J", "P", "G">>}
NameSizes == {original, Label(640, 480), Label(160, 120)}
NameHashes == {<<"a", "b", "c", "1", "2", "3">>, <<"0", "f">>}

NameInit ==
    /\ FetchIdle
    /\ check = "None"
    /\ cmd = "process"
    /\ hard_exit = FALSE
    /\ lpc = "cli"
    /\ outcome = "none"
    /\ kwargs \in [source_file : {<<>>}, copy : {FALSE}, resize : {FALSE},
                   dryrun : BOOLEAN, loop : {FALSE}]
    /\ staged = {}
    /\ tree = {}
    /\ tmpdir = NoTmp
    /\ ppc = "name"
    /\ caller = "none"
    /\ todo = <<>>
    /\ img \in [content : NameHashes, stem : NameStems, ext : NameExts,
                shot_at : NameDates, resolution : NameSizes,
                new_path : {<<>>}, again : {<<>>}]
    /\ imgs = <<>>
    /\ k = 0
    /\ called = {}

\* lines 343-353 / 289-299: the canonical path of a file named stem.ext
NamePath ==
    canonical_path(target_dir, img, img.stem \o Dot \o img.ext, img.shot_at,
                   img.resolution, kwargs.dryrun)

\* the path is computed
compute_path ==
    /\ ppc = "name"
    /\ img' = [img EXCEPT !.new_path = NamePath]
    /\ ppc' = "again"
    /\ UNCHANGED <<kwargs, staged, tree, tmpdir, caller, todo, imgs, k, called>>
    /\ UNCHANGED <<fetchv, loopv>>

\* the path is computed a second time from the same arguments
compute_path_again ==
    /\ ppc = "again"
    /\ img' = [img EXCEPT !.again = NamePath]
    /\ ppc' = "named"
    /\ UNCHANGED <<kwargs, staged, tree, tmpdir, caller, todo, imgs, k, called>>
    /\ UNCHANGED <<fetchv, loopv>>

NameNext == compute_path \/ compute_path_again

NameSpec == NameInit /\ [][NameNext]_vars

\* ------------------------------------------------- the files of the model
\* the name of the n-th image of the camera, as the fetch stage stages it
FileName(n) == <<"I", "M", "G">> \o Digits(n) \o dot_jpg

\* the bytes of the n-th image, by their digest
Content(n) == <<"a", "b", "c">> \o Digits(n)

\* the EXIF DateTimeOriginal of the n-th image: '2023:05:01 10:00:<n>'
Tag(n) ==
    <<"2", "0", "2", "3", ":", "0", "5", ":", "0", "1", " ",
      "1", "0", ":", "0", "0", ":">> \o ZeroPad(Digits(n), 2)

\* an image is well formed, lacks the capture-time tag, or is one convert
\* cannot read
Kinds == {"ok", "noexif", "corrupt"}

\* the n-th image in directory d under the given name
ImageFile(d, name, n, kind) ==
    [path |-> Join(Slash, <<d, name>>),
     content |-> Content(n),
     tag |-> IF kind = "noexif" THEN <<>> ELSE Tag(n),
     jpeg |-> kind # "corrupt"]

\* the n-th image in the staging directory
StagedFile(n, kind) == ImageFile(source_dir, FileName(n), n, kind)

\* ------------------------------------------------ resize_images by itself
\* the size labels resize_images is called with
SizeLabels == {Label(160, 120), Label(320, 240), Label(640, 480),
               Label(1280, 960)}

\* the lists of at most n labels
SizeLists(n) == UNION {[1..m -> SizeLabels] : m \in 0..n}

ResizeInit ==
    /\ FetchIdle
    /\ check \in {"None", "partial"}
    /\ cmd = "process"
    /\ hard_exit = FALSE
    /\ lpc = "cli"
    /\ outcome = "none"
    /\ kwargs \in [source_file : {<<>>}, copy : {FALSE}, resize : {TRUE},
                   dryrun : BOOLEAN, loop : {FALSE}]
    /\ staged \in {{StagedFile(1, kind)} : kind \in {"ok", "corrupt"}}
    /\ tree = {}
    /\ tmpdir = NoTmp
    /\ ppc = "resize_images"
    /\ caller = "none"
    /\ todo = <<>>
    /\ img \in [source_file : {StagedFile(1, "ok").path},
                source_filename : {FileName(1)},
                shot_at : {strptime(Tag(1))},
                new_path : {<<>>},
                resolutions : SizeLists(MaxSizes)]
    /\ imgs = <<>>
    /\ k = 0
    /\ called = {}

ResizeNext ==
    \/ resize_images_enter
    \/ resize_one
    \/ move_one
    \/ resize_images_exit

ResizeSpec == ResizeInit /\ [][ResizeNext]_vars

\* --------------------------------------------------- the process command
\* lines 166-169: the name of a partial download the fetch stage left behind
partial_download ==
    <<".", "p", "a", "r", "t", "i", "a", "l", "-", "d", "o", "w", "n", "l",
      "o", "a", "d", ".", "u", "1", ".">> \o FileName(1)

\* a partial download in the staging directory
PartialFile ==
    [path |-> Join(Slash, <<source_dir, partial_download>>),
     content |-> <<"a">>, tag |-> <<>>, jpeg |-> FALSE]

\* the staging directories the process command starts from: some of the
\* images, each of one kind; a directory of at most one image may also hold
\* a partial download
StagingDirs ==
    UNION {{{StagedFile(n, kind[n]) : n \in D} \cup hidden :
               kind \in [Names -> Kinds],
               hidden \in IF Cardinality(D) <= 1 THEN {{}, {PartialFile}}
                          ELSE {{}}} :
           D \in SUBSET Names}

\* line 389: process_all_images is entered: reversed(os.listdir(source_dir))
call_process_all_images ==
    /\ \E o \in Orders(listdir(staged, source_dir)) : todo' = Reverse(o)
    /\ ppc' = "pass"

\* lines 761-763 and 388: process_all_images(**kwargs) after source_dir was
\* popped from kwargs lacks its positional argument and raises TypeError
process_all_images_TypeError == kwargs.source_file # <<>>

\* lines 389-397: the next name of the listing
process_all_images ==
    /\ ppc = "pass"
    /\ IF todo = <<>>
       THEN ppc' = "passdone" /\ UNCHANGED <<todo, img, caller, called>>
       ELSE /\ todo' = Tail(todo)
            /\ IF _is_image(staged, source_dir, Head(todo))
               THEN call_process_image(Join(Slash, <<source_dir, Head(todo)>>),
                                       <<>>, "process_all_images")
               ELSE UNCHANGED <<ppc, img, caller, called>>
    /\ UNCHANGED <<kwargs, staged, tree, tmpdir, imgs, k>>
    /\ UNCHANGED <<fetchv, loopv>>

\* lines 755-766: with --source-file that file is processed first
cli_process ==
    /\ lpc = "cli"
    /\ ppc = "idle"
    /\ IF kwargs.source_file # <<>>
       THEN /\ call_process_image(kwargs.source_file, <<>>, "cli_process")
            /\ lpc' = "single"
       ELSE /\ lpc' = "dispatch"
            /\ UNCHANGED <<ppc, img, caller, called>>
    /\ UNCHANGED <<kwargs, staged, tree, tmpdir, todo, imgs, k>>
    /\ UNCHANGED <<fetchv, cmd, hard_exit, outcome>>

\* lines 764-771: an exception of process_image ends the command; otherwise
\* the command goes on to process_loop or to process_all_images
cli_process_dispatch ==
    /\ \/ lpc = "dispatch"
       \/ lpc = "single" /\ ppc \in {"returned", "raised"}
    /\ IF lpc = "single" /\ ppc = "raised"
       THEN /\ outcome' = "raised"
            /\ lpc' = "exited"
            /\ UNCHANGED <<todo, ppc>>
       ELSE IF kwargs.loop
       THEN /\ lpc' = "check"
            /\ UNCHANGED <<outcome, todo, ppc>>
       ELSE IF process_all_images_TypeError
       THEN /\ outcome' = "raised"
            /\ lpc' = "exited"
            /\ UNCHANGED <<todo, ppc>>
       ELSE /\ call_process_all_images
            /\ lpc' = "once"
            /\ UNCHANGED outcome
    /\ UNCHANGED <<kwargs, staged, tree, tmpdir, caller, img, imgs, k, called>>
    /\ UNCHANGED <<fetchv, cmd, hard_exit>>

\* lines 542-545: process_loop calls process_all_images(**kwargs)
TryProcess ==
    /\ lpc = "try"
    /\ cmd = "process"
    /\ IF process_all_images_TypeError
       THEN /\ outcome' = "raised"
            /\ lpc' = AfterStage("raised")
            /\ UNCHANGED <<todo, ppc>>
       ELSE /\ call_process_all_images
            /\ lpc' = "stage"
            /\ UNCHANGED outcome
    /\ UNCHANGED <<kwargs, staged, tree, tmpdir, caller, img, imgs, k, called>>
    /\ UNCHANGED <<fetchv, cmd, hard_exit>>

\* lines 543-545 and 771: process_all_images has returned or raised; in the
\* loop the exception is caught, without the loop it ends the command
process_all_images_ends ==
    /\ lpc \in {"once", "stage"}
    /\ ppc \in {"passdone", "raised"}
    /\ outcome' = IF ppc = "raised" THEN "raised" ELSE "returned"
    /\ lpc' = IF lpc = "once" THEN "exited"
              ELSE AfterStage(IF ppc = "raised" THEN "raised" ELSE "returned")
    /\ ppc' = "idle"
    /\ UNCHANGED <<kwargs, staged, tree, tmpdir, caller, todo, img, imgs, k,
                   called>>
    /\ UNCHANGED <<fetchv, cmd, hard_exit>>

ProcInit ==
    /\ FetchIdle
    /\ check \in {"lambda", "partial"}
    /\ cmd = "process"
    /\ hard_exit \in BOOLEAN
    /\ lpc = "cli"
    /\ outcome = "none"
    /\ staged \in StagingDirs
    /\ kwargs \in [source_file : {<<>>} \cup {StagedFile(n, "ok").path : n \in Names},
                   copy : BOOLEAN, resize : BOOLEAN, dryrun : {FALSE},
                   loop : BOOLEAN]
    /\ kwargs.source_file # <<>> => HasPath(staged, kwargs.source_file)
    /\ tree = {}
    /\ tmpdir = NoTmp
    /\ ppc = "idle"
    /\ caller = "none"
    /\ todo = <<>>
    /\ img = <<>>
    /\ imgs = <<>>
    /\ k = 0
    /\ called = {}

ProcNext ==
    \/ cli_process
    \/ cli_process_dispatch
    \/ LoopCheck
    \/ GatedSleep
    \/ TryProcess
    \/ process_all_images
    \/ process_image_begin
    \/ resize_images_enter
    \/ resize_one
    \/ move_one
    \/ resize_images_exit
    \/ place
    \/ process_all_images_ends
    \/ LoopSleep

\* the command is sequential and each of its steps ends
ProcSpec == ProcInit /\ [][ProcNext]_vars /\ WF_vars(ProcNext)

\* ------------------------------------------------- the reprocess command
\* the day directory of the model: '2023-05-01', the day of every Tag(n)
day_subdir == <<"2", "0", "2", "3", "-", "0", "5", "-", "0", "1">>

\* line 436: os.path.join(source_dir, day_subdir)
day_dir == Join(Slash, <<source_dir, day_subdir>>)

\* line 443: os.path.join(target_dir, 'original', day_subdir)
originals_target_dir == Join(Slash, <<target_dir, original, day_subdir>>)

\* lines 408-416: the date and time are cut off (20 characters), then the
\* first and the last of the dot-separated parts are kept
_extract_original_filename(filename) ==
    LET split == Split(DropFirst(filename, 20), ".")
    IN split[1] \o Dot \o split[Len(split)]

\* line 409: a name in the old format, '2023-05-01_10-00-01_IMG1.jpg'
OldName(n) ==
    datetime_to_datetimestr(strptime(Tag(n)))[2] \o <<"_">> \o FileName(n)

\* the n-th image in the day directory of the source
SourceImage(n, kind) == ImageFile(day_dir, OldName(n), n, kind)

\* the original of the n-th image where an earlier processing placed it
PlacedOriginal(n) ==
    LET f == ImageFile(day_dir, OldName(n), n, "ok")
    IN [f EXCEPT !.path = canonical_path(target_dir, f, FileName(n),
                                         strptime(Tag(n)), original, FALSE)]

\* a file of the destination that is not an image
JunkFile ==
    [path |-> Join(Slash, <<originals_target_dir,
                            <<"n", "o", "t", "e", "s", ".", "t", "x", "t">>>>),
     content |-> <<"n">>, tag |-> <<>>, jpeg |-> FALSE]

\* lines 439-442 and 444-451: the images of a directory; a directory that
\* does not exist has none
image_filenames(F, d) == {name \in listdir(F, d) : _is_image(F, d, name)}

\* line 452 without the test
SameAmount_never(source_filenames, destination_filenames) == FALSE

\* line 452: len(source_filenames) == len(destination_filenames)
SameAmount(source_filenames, destination_filenames) ==
    Cardinality(source_filenames) = Cardinality(destination_filenames)

\* lines 486-490 and 419-432: reprocess_all_images lists the day
\* directories of the source and enters reprocess_daydir for the day
cli_reprocess ==
    /\ lpc = "cli"
    /\ ppc = "idle"
    /\ IF listdir(staged, day_dir) = {}
       THEN lpc' = "exited" /\ outcome' = "returned" /\ UNCHANGED ppc
       ELSE lpc' = "reprocess" /\ ppc' = "day_enter" /\ UNCHANGED outcome
    /\ UNCHANGED <<kwargs, staged, tree, tmpdir, caller, todo, img, imgs, k,
                   called>>
    /\ UNCHANGED <<fetchv, cmd, hard_exit>>

\* lines 435-462: the two listings, the comparison of their lengths, and
\* the set of original names of the destination, taken once
reprocess_daydir_enter ==
    /\ ppc = "day_enter"
    /\ LET source_filenames == image_filenames(staged, day_dir)
           destination_filenames == image_filenames(tree, originals_target_dir)
           original_filenames_in_destination ==
               {_extract_original_filename(filename) :
                    filename \in destination_filenames}
       IN IF SameAmount(source_filenames, destination_filenames)
          THEN ppc' = "daydone" /\ UNCHANGED todo
          ELSE /\ \E o \in Orders(source_filenames) :
                    todo' = [i \in 1..Len(o) |->
                               [filename |-> o[i],
                                in_destination |->
                                    _extract_original_filename(o[i])
                                        \in original_filenames_in_destination]]
               /\ ppc' = "day"
    /\ UNCHANGED <<kwargs, staged, tree, tmpdir, caller, img, imgs, k, called>>
    /\ UNCHANGED <<fetchv, loopv>>

\* lines 463-483: the next name of the source listing
reprocess_daydir ==
    /\ ppc = "day"
    /\ IF todo = <<>>
       THEN ppc' = "daydone" /\ UNCHANGED <<todo, img, caller, called>>
       ELSE /\ todo' = Tail(todo)
            /\ IF Head(todo).in_destination
               THEN UNCHANGED <<ppc, img, caller, called>>
               ELSE call_process_image(
                        Join(Slash, <<day_dir, Head(todo).filename>>),
                        _extract_original_filename(Head(todo).filename),
                        "reprocess_daydir")
    /\ UNCHANGED <<kwargs, staged, tree, tmpdir, imgs, k>>
    /\ UNCHANGED <<fetchv, loopv>>

\* line 781: reprocess_all_images has returned, or an exception of
\* process_image has ended the command
cli_reprocess_ends ==
    /\ lpc = "reprocess"
    /\ ppc \in {"daydone", "raised"}
    /\ outcome' = IF ppc = "raised" THEN "raised" ELSE "returned"
    /\ lpc' = "exited"
    /\ ppc' = "idle"
    /\ UNCHANGED <<kwargs, staged, tree, tmpdir, caller, todo, img, imgs, k,
                   called>>
    /\ UNCHANGED <<fetchv, cmd, hard_exit>>

\* the source and destination trees the reprocess command starts from
ReprocSources ==
    {{SourceImage(n, kind[n]) : n \in D} :
        D \in SUBSET Names, kind \in [Names -> Kinds]}
ReprocDestinations ==
    {{PlacedOriginal(n) : n \in E} \cup junk :
        E \in SUBSET Names, junk \in {{}, {JunkFile}}}

ReprocInit ==
    /\ FetchIdle
    /\ check = "None"
    /\ cmd = "reprocess"
    /\ hard_exit = FALSE
    /\ lpc = "cli"
    /\ outcome = "none"
    /\ staged \in ReprocSources
    /\ tree \in ReprocDestinations
    /\ kwargs \in [source_file : {<<>>}, copy : BOOLEAN, resize : BOOLEAN,
                   dryrun : BOOLEAN, loop : {FALSE}]
    /\ tmpdir = NoTmp
    /\ ppc = "idle"
    /\ caller = "none"
    /\ todo = <<>>
    /\ img = <<>>
    /\ imgs = <<>>
    /\ k = 0
    /\ called = {}

ReprocNext ==
    \/ cli_reprocess
    \/ reprocess_daydir_enter
    \/ reprocess_daydir
    \/ process_image_begin
    \/ resize_images_enter
    \/ resize_one
    \/ move_one
    \/ resize_images_exit
    \/ place
    \/ cli_reprocess_ends

ReprocSpec == ReprocInit /\ [][ReprocNext]_vars

\* ------------------------------------- the download command, run again
MaxShots == 3     \* images on the camera when the command is run again

\* the camera holds the images 1..MaxShots of one directory
ShotPaths == {[dir |-> 100, name |-> n] : n \in 1..MaxShots}

\* lines 148-152 and 190-192: what a download of image r has left behind:
\* the staged file and the progress marker
StagedBefore(r) == File(TargetPathDl(ImageUrl(r)), r, NumChunks)
MarkedBefore(r) == progress_filepath(ImageUrl(r))

\* the command is run on the directories that earlier invocations, made
\* without --delete-after-download (its default), have left: some images of
\* the camera are staged and marked, all of them still on the camera
RerunInit ==
    /\ ProcIdle
    /\ skip_existing \in BOOLEAN
    /\ delete_after_download \in BOOLEAN
    /\ limit \in Limits
    /\ check \in {"None", "partial"}
    /\ camera = ShotPaths
    /\ dirs = {"target_dir", "progress_dir"}
    /\ fetched \in SUBSET ShotPaths
    /\ files = {StagedBefore(r) : r \in fetched}
    /\ markers = {MarkedBefore(r) : r \in fetched}
    /\ pc = "idle"
    /\ listing = <<>>
    /\ idx = 0
    /\ is_first = TRUE
    /\ count = 1
    /\ target_path_tmp = NoPath
    /\ transfer = "none"
    /\ deleteReqs = <<>>
    /\ dlStarted = 0
    /\ dlDone = 0
    /\ failed = FALSE
    /\ byLimit = FALSE
    /\ runs = 0
    /\ prev = [listing |-> <<>>, returned |-> FALSE, failed |-> FALSE,
               byLimit |-> FALSE]
    /\ markers0 = markers
    /\ cmd = "download"
    /\ hard_exit = FALSE
    /\ lpc = "cli"
    /\ outcome = "none"

RerunSpec == RerunInit /\ [][Next]_vars

\* -------------------------------------- the process command, run again
\* lines 379-383: what process --copy --no-resize has left of the n-th
\* image: the staged file, and its copy at the canonical path of the original
CopiedBefore(n) ==
    LET file == StagedFile(n, "ok")
    IN [file EXCEPT !.path = canonical_path(target_dir, file, FileName(n),
                                            extract_exif_date(file), original,
                                            FALSE)]

\* the command is run with --move (its default) on the directories that an
\* earlier invocation with --copy --no-resize has left: some of the
\* well-formed staged images have their original in the canonical tree
AgainInit ==
    /\ FetchIdle
    /\ check \in {"lambda", "partial"}
    /\ cmd = "process"
    /\ hard_exit \in BOOLEAN
    /\ lpc = "cli"
    /\ outcome = "none"
    /\ staged \in StagingDirs
    /\ kwargs \in [source_file : {<<>>} \cup {StagedFile(n, "ok").path : n \in Names},
                   copy : {FALSE}, resize : BOOLEAN, dryrun : {FALSE},
                   loop : BOOLEAN]
    /\ kwargs.source_file # <<>> => HasPath(staged, kwargs.source_file)
    /\ tree \in {{CopiedBefore(n) : n \in E} :
                    E \in SUBSET {n \in Names : StagedFile(n, "ok") \in staged}}
    /\ tmpdir = NoTmp
    /\ ppc = "idle"
    /\ caller = "none"
    /\ todo = <<>>
    /\ img = <<>>
    /\ imgs = <<>>
    /\ k = 0
    /\ called = {}

AgainSpec == AgainInit /\ [][ProcNext]_vars

\* ---------------------------------------------------- the upload command
\* In this command tree is the directory --source-dir names (the canonical
\* tree), todo the images upload2 has still to visit, img the source_path of
\* the running upload_file call, k upload_count, and called the source paths
\* for which s3_transfer.upload_file has returned.

\* str.upper() on the letters that occur in the file names of the model
Upper(cs) ==
    [i \in 1..Len(cs) |->
        CASE cs[i] = "j" -> "J" [] cs[i] = "p" -> "P" [] cs[i] = "g" -> "G"
          [] cs[i] = "t" -> "T" [] cs[i] = "x" -> "X" [] OTHER -> cs[i]]

\* os.listdir(d) on a tree: the files and the directories of directory d
dir_entries(F, d) ==
    {Split(DropFirst(f.path, Len(d) + 1), "/")[1] :
        f \in {x \in F : StartsWith(x.path, d \o Slash)}}

\* os.path.isdir(p)
isdir(F, p) == \E f \in F : StartsWith(f.path, p \o Slash)

\* the lists of a list of lists, one after the other
RECURSIVE Flat(_)
Flat(ss) == IF ss = <<>> THEN <<>> ELSE Head(ss) \o Flat(Tail(ss))

\* lines 653-667: the image paths upload2 visits, in its order: the size
\* directories, the date directories of each and the names in each, all
\* sorted in reverse; hidden entries, entries that are not directories and
\* names that are not files ending in .JPG (any case) are passed over
upload_listing(F, root) ==
    LET ordered(S) == sorted_reverse(CHOOSE o \in Orders(S) : TRUE)
        subdirs(d) ==
            SelectSeq(ordered(dir_entries(F, d)),
                      LAMBDA e : /\ ~StartsWith(e, Dot)
                                 /\ isdir(F, Join(Slash, <<d, e>>)))
        images(d) ==
            SelectSeq(ordered(dir_entries(F, d)),
                      LAMBDA e : /\ HasPath(F, Join(Slash, <<d, e>>))
                                 /\ EndsWith(Upper(e), Upper(dot_jpg)))
        in_date(d) ==
            [i \in 1..Len(images(d)) |-> Join(Slash, <<d, images(d)[i]>>)]
        in_size(d) ==
            Flat([i \in 1..Len(subdirs(d)) |->
                     in_date(Join(Slash, <<d, subdirs(d)[i]>>))])
    IN Flat([i \in 1..Len(subdirs(root)) |->
                in_size(Join(Slash, <<root, subdirs(root)[i]>>))])

\* lines 625-634: s3_transfer.upload_file returns, or raises
s3_upload_file == {"ok", "raise"}

\* line 619: the default of the parameter, which no caller passes
delete_after_upload == TRUE

\* lines 800-810: upload_loop with --loop, otherwise upload2 is called once
cli_upload ==
    /\ lpc = "cli"
    /\ ppc = "idle"
    /\ IF kwargs.loop
       THEN lpc' = "check" /\ UNCHANGED <<todo, k, ppc>>
       ELSE /\ todo' = upload_listing(tree, target_dir)
            /\ k' = 0
            /\ ppc' = "upload2"
            /\ lpc' = "once"
    /\ UNCHANGED <<kwargs, staged, tree, tmpdir, caller, img, imgs, called>>
    /\ UNCHANGED <<fetchv, cmd, hard_exit, outcome>>

\* lines 705-706: upload_loop calls upload2(**kwargs)
TryUpload ==
    /\ lpc = "try"
    /\ cmd = "upload"
    /\ todo' = upload_listing(tree, target_dir)
    /\ k' = 0
    /\ ppc' = "upload2"
    /\ lpc' = "stage"
    /\ UNCHANGED <<kwargs, staged, tree, tmpdir, caller, img, imgs, called>>
    /\ UNCHANGED <<fetchv, cmd, hard_exit, outcome>>

\* lines 662-685 and 619-624: the next image; upload_file is called for it
\* and returns at once with dryrun
upload2 ==
    /\ ppc = "upload2"
    /\ IF todo = <<>>
       THEN ppc' = "passdone" /\ UNCHANGED <<todo, img>>
       ELSE /\ img' = Head(todo)
            /\ todo' = Tail(todo)
            /\ ppc' = IF kwargs.dryrun THEN "uploaded" ELSE "transfer"
    /\ UNCHANGED <<kwargs, staged, tree, tmpdir, caller, imgs, k, called>>
    /\ UNCHANGED <<fetchv, loopv>>

\* lines 625-634: the transfer; an exception leaves upload_file and upload2
upload_file_transfer ==
    /\ ppc = "transfer"
    /\ \E r \in s3_upload_file :
         IF r = "raise"
         THEN ppc' = "raised" /\ UNCHANGED called
         ELSE ppc' = "remove" /\ called' = called \cup {img}
    /\ UNCHANGED <<kwargs, staged, tree, tmpdir, caller, todo, img, imgs, k>>
    /\ UNCHANGED <<fetchv, loopv>>

\* lines 635-642: os.remove(source_path) if delete_after_upload; nothing is
\* reported with the default of --report-api
upload_file_remove ==
    /\ ppc = "remove"
    /\ tree' = IF delete_after_upload THEN tree \ {FileOf(tree, img)}
               ELSE tree
    /\ ppc' = "uploaded"
    /\ UNCHANGED <<kwargs, staged, tmpdir, caller, todo, img, imgs, k, called>>
    /\ UNCHANGED <<fetchv, loopv>>

\* lines 686-688: upload_count += 1, and the return at the limit
upload_counted ==
    /\ ppc = "uploaded"
    /\ k' = k + 1
    /\ ppc' = IF kwargs.limit # 0 /\ k + 1 >= kwargs.limit THEN "passdone"
              ELSE "upload2"
    /\ UNCHANGED <<kwargs, staged, tree, tmpdir, caller, todo, img, imgs,
                   called>>
    /\ UNCHANGED <<fetchv, loopv>>

\* lines 705-708 and 810: upload2 has returned or raised; in the loop the
\* exception is caught, without the loop it ends the command
upload2_ends ==
    /\ lpc \in {"once", "stage"}
    /\ ppc \in {"passdone", "raised"}
    /\ outcome' = IF ppc = "raised" THEN "raised" ELSE "returned"
    /\ lpc' = IF lpc = "once" THEN "exited"
              ELSE AfterStage(IF ppc = "raised" THEN "raised" ELSE "returned")
    /\ ppc' = "idle"
    /\ UNCHANGED <<kwargs, staged, tree, tmpdir, caller, todo, img, imgs, k,
                   called>>
    /\ UNCHANGED <<fetchv, cmd, hard_exit>>

\* a file of the canonical tree: the original of the n-th image or its
\* 640x480 variant
CanonicalFile(n, resolution) ==
    LET file == [StagedFile(n, "ok") EXCEPT
                     !.content = IF resolution = original THEN @
                                 ELSE Converted(@, resolution)]
    IN [file EXCEPT !.path = canonical_path(target_dir, file, FileName(n),
                                            strptime(Tag(n)), resolution,
                                            FALSE)]

\* the canonical trees the upload command starts from: some originals and
\* variants, with or without a file that is not an image
UploadTrees ==
    {T \cup junk :
        T \in SUBSET {CanonicalFile(n, r) :
                          n \in Names, r \in {original, Label(640, 480)}},
        junk \in {{}, {JunkFile}}}

UploadInit ==
    /\ FetchIdle
    /\ check \in {"lambda", "partial"}
    /\ cmd = "upload"
    /\ hard_exit \in BOOLEAN
    /\ lpc = "cli"
    /\ outcome = "none"
    /\ kwargs \in [copy : BOOLEAN, dryrun : BOOLEAN, limit : Limits,
                   loop : BOOLEAN]
    /\ tree \in UploadTrees
    /\ staged = {}
    /\ tmpdir = NoTmp
    /\ ppc = "idle"
    /\ caller = "none"
    /\ todo = <<>>
    /\ img = <<>>
    /\ imgs = <<>>
    /\ k = 0
    /\ called = {}

UploadNext ==
    \/ cli_upload
    \/ LoopCheck
    \/ GatedSleep
    \/ TryUpload
    \/ upload2
    \/ upload_file_transfer
    \/ upload_file_remove
    \/ upload_counted
    \/ upload2_ends
    \/ LoopSleep

UploadSpec == UploadInit /\ [][UploadNext]_vars

\* ================================================================ claims

\* the camera files the current invocation has asked the camera to delete
Deleted == Range(deleteReqs)

\* C1: within one invocation of download_all_images the first (newest) image
\* the listing yields is never the target of a delete request, whether it was
\* skipped, downloaded or failed to download.
C1_NewestNeverDeleted ==
    Len(listing) >= 1 => rel_path(listing[1]) \notin Deleted

\* the newest image was downloaded in a run that deletes, and older images
\* were deleted in the same run
C1_Witness ==
    /\ delete_after_download
    /\ pc = "done"
    /\ Len(listing) >= 2
    /\ rel_path(listing[1]) \in fetched
    /\ dlDone >= 1
    /\ Len(deleteReqs) >= 1

\* C2: a delete request is issued only for an image (directory and file
\* name) whose download completed, in this invocation or an earlier one.
C2_DeleteOnlyFetched == \A r \in Deleted : r \in fetched

\* C3: with delete_after_download, no limit and no failed transfer, an
\* invocation that returns has issued exactly one delete request for every
\* listed image but the newest, and none for the newest: N-1 requests.
C3_ExactlyNMinusOneDeletes ==
    (/\ pc = "done"
     /\ delete_after_download
     /\ limit = 0
     /\ ~failed
     /\ Len(listing) >= 1)
    => /\ Len(deleteReqs) = Len(listing) - 1
       /\ \A i \in 1..Len(deleteReqs) : deleteReqs[i] = rel_path(listing[i + 1])

\* a run over three images, one skipped and one downloaded among the
\* deleted ones
C3_Witness ==
    /\ pc = "done"
    /\ delete_after_download
    /\ limit = 0
    /\ ~failed
    /\ Len(listing) = 3
    /\ Len(deleteReqs) = 2
    /\ dlDone \in 1..2

\* C4 as stated: a second run with skip_existing over the listing of the
\* run before it (which returned, with no failed transfer) starts no
\* download and leaves the markers as they were.
C4_SecondRunDownloadsNothing ==
    (/\ runs >= 2
     /\ skip_existing
     /\ prev.returned
     /\ ~prev.failed
     /\ idx >= 1
     /\ listing = prev.listing)
    => /\ dlStarted = 0
       /\ markers = markers0

\* C4 amended: the same, when the run before was not stopped by its limit.
C4_SecondRunAfterFullRun ==
    (/\ runs >= 2
     /\ skip_existing
     /\ prev.returned
     /\ ~prev.failed
     /\ ~prev.byLimit
     /\ idx >= 1
     /\ listing = prev.listing)
    => /\ dlStarted = 0
       /\ markers = markers0

\* a second run has walked an unchanged listing of two images or more whose
\* markers the first run wrote
C4_Witness ==
    /\ runs >= 2
    /\ skip_existing
    /\ prev.returned
    /\ ~prev.failed
    /\ ~prev.byLimit
    /\ listing = prev.listing
    /\ Len(listing) >= 2
    /\ markers # {}
    /\ pc = "done"

\* C5: with an empty progress store, no deleting, no limit and no failed
\* transfer, a run over N listed images downloads N images, leaves N
\* markers and issues no delete request.
C5_NDownloadsNMarkers ==
    (/\ pc = "done"
     /\ markers0 = {}
     /\ ~delete_after_download
     /\ limit = 0
     /\ ~failed)
    => /\ dlDone = Len(listing)
       /\ Cardinality(markers) = Len(listing)
       /\ deleteReqs = <<>>

FinalFiles == {x \in files : x.path.partial = ""}
TmpFiles == {x \in files : x.path.partial # ""}

\* C6: a file under a final staging name holds the whole body of one camera
\* image; partial bodies exist under temporary names only.
C6_FinalFilesComplete == \A x \in FinalFiles : x.n = NumChunks

\* a transfer is under way (part of the body written) beside a staged file
C6_Witness ==
    /\ pc = "stream"
    /\ FinalFiles # {}
    /\ \E x \in TmpFiles : x.n \in 1..(NumChunks - 1)

\* no two camera files the model has seen share a file name
UniqueNames ==
    \A a, b \in camera \cup fetched \cup Range(listing) :
        a.name = b.name => a.dir = b.dir

\* C7: a failed transfer creates no file under the final name and leaves no
\* temporary file; no marker is written and no delete request is issued for
\* the image; the stage goes on (sleep and next image, or the limit's
\* return) instead of aborting. Stated for cameras whose file names are
\* unique, so that a violation does not rest on two images sharing a marker.
C7_FailedTransferLeavesNoTrace ==
    [][UniqueNames =>
       /\ (pc \in {"get", "stream"} /\ transfer' = "failed")
            => (FinalFiles' = FinalFiles /\ TmpFiles' = {} /\ pc' = "after")
       /\ (pc = "after" /\ transfer = "failed")
            => /\ markers' = markers
               /\ files' = files
               /\ deleteReqs' = deleteReqs
               /\ pc' \in {"sleep", "done"}]_vars

\* the final staging paths that ever received a completely streamed file
StagedEver == {TargetPathDl(ImageUrl(r)) : r \in fetched}
MarkerOf(p) == [progress_filename |-> p.name]

\* C8: a marker exists only for a staging file that was fully fetched at
\* some earlier point.
C8_MarkerImpliesFetched ==
    \A m \in markers : \E p \in StagedEver : m = MarkerOf(p)

\* a transfer failed, no marker was written for it, and another image of the
\* same run has its marker
C8_Witness ==
    /\ pc = "sleep"
    /\ failed
    /\ markers # {}
    /\ progress_filepath(image_url) \notin markers

\* C9: an invocation never downloads more than limit images, and when it is
\* stopped by its limit, limit images have been downloaded in it. Stated for
\* runs whose staging directory exists, so that a failed transfer is a failure
\* of the camera's response and not of open().
C9_LimitCountsDownloads ==
    /\ limit # 0 => dlDone <= limit
    /\ (byLimit /\ "target_dir" \in dirs) => dlDone = limit

\* C10: in a poll loop without hard-exit an exception of the stage never ends
\* the loop: after it the loop reaches its check again, the loop evaluates
\* its check again and again, and if the check passes infinitely often the
\* stage is invoked infinitely often.
C10_LoopSurvivesErrors ==
    ~hard_exit =>
        /\ [](outcome = "raised" => <>(lpc = "check"))
        /\ []<>(lpc = "check")
        /\ ([]<>(lpc = "try") => []<>(lpc = "stage"))

\* the stage is running again after an earlier invocation raised
C10_Witness ==
    /\ ~hard_exit
    /\ outcome = "raised"
    /\ lpc = "stage"
    /\ runs >= 2

\* C11: with hard_exit every poll loop ends the process after one iteration:
\* the stage is invoked at most once, not at all when the check failed and
\* once when it passed, and the process exits after the sleep that follows,
\* whether the stage returned or raised.
C11_HardExitOneIteration ==
    /\ hard_exit => <>[](lpc = "exited")
    /\ [](hard_exit => runs <= 1)
    /\ [][hard_exit =>
            /\ (lpc = "gated" => (lpc' = "exited" /\ runs' = 0))
            /\ (lpc = "try" => runs' = 1)
            /\ (lpc = "sleep" => (lpc' = "exited" /\ runs' = 1))]_vars

\* the process has exited after one invocation of a stage that raised
C11_Witness ==
    /\ hard_exit
    /\ lpc = "exited"
    /\ runs = 1
    /\ outcome = "raised"

\* C16: when the check is false at the start of download_all_images the
\* stage raises there: no directory is created, the listing is not
\* requested, and no download, marker write or delete request takes place,
\* in that step or after it in the same invocation.
C16_FailedCheckAtStartAborts ==
    [][/\ (pc = "start" /\ check = "partial" /\ pc' # "for")
            => /\ pc' = "raised"
               /\ dirs' = dirs
               /\ files' = files
               /\ markers' = markers
               /\ camera' = camera
               /\ listing' = <<>>
               /\ deleteReqs' = <<>>
               /\ dlStarted' = 0
       /\ (pc = "raised" /\ pc' # "start")
            => UNCHANGED <<world, locals, hist>>]_vars

\* an invocation over a camera with images has raised at its first check,
\* with no directory on disk
C16_Witness ==
    /\ check = "partial"
    /\ pc = "raised"
    /\ camera # {}
    /\ dirs = {}
    /\ listing = <<>>
    /\ dlStarted = 0

\* a step of the fetch stage that creates a directory, moves a file to its
\* final staging name or asks the camera to delete a file
DestructiveStep ==
    \/ dirs' # dirs
    \/ FinalFiles' # FinalFiles
    \/ Len(deleteReqs') > Len(deleteReqs)

\* the places of the fetch stage where the check has just been evaluated, or
\* is evaluated by the step itself, with no destructive action since: line
\* 118 (start), line 174 (download) and the transfer that follows line 174
\* up to the move of line 192 (get, stream)
CheckIsFresh == pc \in {"start", "download", "get", "stream"}

\* C17: with a check configured, every directory creation, every move into
\* the staging directory and every delete request of the fetch stage is
\* preceded by a fresh evaluation of the check, with no other such action
\* in between. Stated for cameras whose file names are unique, so that a
\* violation does not rest on two images sharing a marker.
C17_FreshCheckBeforeEachAction ==
    [][(UniqueNames /\ check = "partial" /\ DestructiveStep)
          => CheckIsFresh]_vars

\* two digits of a strftime field, written out
TwoDigits(n) == IF n < 10 THEN "0" \o ToString(n) ELSE ToString(n)

\* {YYYY-MM-DD} of the claimed format
DayText(dt) ==
    ToString(dt.year) \o "-" \o TwoDigits(dt.month) \o "-" \o TwoDigits(dt.day)

\* {HH-MM-SS} of the claimed format
TimeText(dt) ==
    TwoDigits(dt.hour) \o "-" \o TwoDigits(dt.minute) \o "-"
        \o TwoDigits(dt.second)

\* C19: the canonical path is
\* {targetRoot}/{sizeLabel}/{YYYY-MM-DD}/{YYYY-MM-DD_HH-MM-SS}.{basename}.{sizeLabel}.{md5hex}.{ext}
\* for every capture time, basename, size label, digest and extension, where
\* {md5hex} is the value of md5() (the digest of the file, and the literal
\* DRYRUN-MD5 in a dry run, which places nothing); computing it again from
\* the same arguments gives the same string; the arguments of the example
\* give the path of the example.
C19_CanonicalPathFormat ==
    /\ ppc \in {"again", "named"} =>
         Text(img.new_path) =
             Text(target_dir) \o "/" \o Text(img.resolution) \o "/"
                 \o DayText(img.shot_at) \o "/"
                 \o DayText(img.shot_at) \o "_" \o TimeText(img.shot_at)
                 \o "." \o Text(img.stem)
                 \o "." \o Text(img.resolution)
                 \o "." \o (IF kwargs.dryrun THEN "DRYRUN-MD5"
                            ELSE Text(img.content))
                 \o "." \o Text(img.ext)
    /\ ppc = "named" => img.again = img.new_path
    /\ (/\ ppc = "named"
        /\ ~kwargs.dryrun
        /\ img.shot_at = [year |-> 2023, month |-> 5, day |-> 1, hour |-> 10,
                          minute |-> 0, second |-> 0]
        /\ Text(img.stem) = "IMG1"
        /\ Text(img.ext) = "jpg"
        /\ Text(img.content) = "abc123"
        /\ img.resolution = Label(640, 480))
       => Text(img.new_path)
            = "/t/640x480/2023-05-01/2023-05-01_10-00-00.IMG1.640x480.abc123.jpg"

\* the path of the example has been computed twice
C19_Witness ==
    /\ ppc = "named"
    /\ ~kwargs.dryrun
    /\ Text(img.again)
         = "/t/640x480/2023-05-01/2023-05-01_10-00-00.IMG1.640x480.abc123.jpg"

\* the labels of a list are pairwise different
DistinctSizes(s) == \A i, j \in 1..Len(s) : s[i] = s[j] => i = j

\* C13: for any list of (distinct) sizes passed to resize_images the
\* cascade runs largest first: the first variant is made from the original
\* and every other variant from the output of the next larger size.
C13_LargestFirstCascade ==
    (ppc \in {"resize", "move", "leave"} /\ DistinctSizes(img.resolutions))
    => /\ \A i, j \in 1..Len(imgs) :
            i < j => LabelWidth(imgs[i].resolution)
                        > LabelWidth(imgs[j].resolution)
       /\ \A i \in 1..Len(imgs) :
            imgs[i].source_file = IF i = 1 THEN img.source_file
                                  ELSE imgs[i - 1].tmp_target_file

\* the original of the n-th image is in the canonical tree
Placed(n) == \E f \in tree : f.content = Content(n)

\* C12: in the process loop a staged image that fails (no capture-time tag,
\* or convert exiting non-zero) aborts only itself: every well-formed image
\* of the staging directory is placed in the canonical tree, in the same
\* pass or a later one, also when the failing image fails in every pass.
\* Stated for a loop without hard-exit whose check always passes.
C12_OtherImagesStillPlaced ==
    \A n \in Names :
        (/\ kwargs.loop
         /\ ~hard_exit
         /\ check = "lambda"
         /\ kwargs.source_file = <<>>
         /\ StagedFile(n, "ok") \in staged)
        => <>Placed(n)

\* the canonical path of the original of the image process_image was called
\* for, computed from the staged file (lines 341-353)
OriginalPath ==
    LET file == FileOf(staged, img.source_file)
    IN canonical_path(target_dir, file, basename(img.source_file),
                      extract_exif_date(file), original, kwargs.dryrun)

\* process_image is at its start for a well-formed image whose original is
\* already in the canonical tree
AlreadyPlaced ==
    /\ ppc = "begin"
    /\ HasPath(staged, img.source_file)
    /\ exif_error(FileOf(staged, img.source_file)) = ""
    /\ HasPath(tree, OriginalPath)

\* C14: when process_image is called with skip_existing for an image whose
\* original already exists at its canonical path, it returns to its caller
\* at once and without effect: the resize cascade is not entered (no
\* temporary directory, no convert), nothing is placed, and the canonical
\* tree and the staging directory are what they were.
C14_ReprocessingIsNoOp ==
    [][(skip_existing /\ AlreadyPlaced) =>
          /\ ppc' = ReturnTo(caller)
          /\ tree' = tree
          /\ staged' = staged
          /\ tmpdir' = tmpdir /\ tmpdir = NoTmp]_vars

\* a second pass of the loop with --copy has listed the one staged image,
\* which the first pass placed, and process_image has returned for it
C14_Witness ==
    /\ kwargs.copy /\ skip_existing
    /\ lpc = "stage" /\ outcome = "returned"
    /\ ppc = "pass" /\ todo = <<>>
    /\ staged = {StagedFile(1, "ok")}
    /\ img.source_file = StagedFile(1, "ok").path
    /\ HasPath(tree, img.new_path)
    /\ Cardinality(tree) = IF kwargs.resize THEN 4 ELSE 1

\* C20: with --source-file the process command handles that one file and
\* then finishes: once process_image has returned for the file, the command
\* has ended, without an exception and without having entered the poll
\* loop, whatever --loop/--no-loop says.
C20_SourceFileOnly ==
    (kwargs.source_file # <<>> /\ lpc # "single" /\ ppc = "returned")
        => (lpc = "exited" /\ outcome # "raised")

\* C18: reprocess_daydir entered for a day whose source directory holds as
\* many images as original/<day>/ of the destination never calls
\* process_image for that day, whatever the names and contents of the files.
C18_CountShortCircuit ==
    []((/\ ppc = "day_enter"
        /\ Cardinality(image_filenames(staged, day_dir))
             = Cardinality(image_filenames(tree, originals_target_dir)))
       => [](called = {}))

\* the command has ended for a source holding image 1 only and a destination
\* holding image 2 only: the same amount, not the same image
C18_Witness ==
    /\ lpc = "exited" /\ outcome = "returned"
    /\ ~kwargs.dryrun
    /\ staged = {SourceImage(1, "ok")}
    /\ tree = {PlacedOriginal(2)}
    /\ called = {}

\* C15: with dryrun no step of the process/resize/reprocess path has a
\* filesystem or subprocess effect: no file or directory is created, moved,
\* copied or deleted (the temporary directory included) and the staging and
\* canonical trees stay what they were.
C15_DryrunNoSideEffects ==
    [][kwargs.dryrun =>
          (staged' = staged /\ tree' = tree /\ tmpdir' = tmpdir)]_vars

\* the step sends the camera a request for the listed image: its delete
\* (lines 133, 194) or its GET (line 177)
CameraRequestStep ==
    Len(deleteReqs') > Len(deleteReqs) \/ dlStarted' > dlStarted

\* the run has not slept yet: count += 1 (line 148) precedes every sleep
\* (line 161), and count starts at 1
NoSleepYet == count = 1

\* C25: the camera requests for one listed image and those for the next are
\* separated by the inter-image sleep, on the download path and on the
\* skip-and-delete path: once a delete request was made for a listed image,
\* no request for a later image is made in a run that has not slept since.
\* Stated for cameras whose file names are unique.
C25_SleepBetweenImages ==
    [][(UniqueNames /\ NoSleepYet /\ deleteReqs # <<>>) => ~CameraRequestStep]_vars

\* C22: in every poll loop the stage is called in an iteration only when the
\* check at the head of that iteration was true (the call follows the check
\* directly); a step of the check and a step of the gated sleep do no stage
\* work; the gated sleep leads back to the check (or ends the process with
\* hard-exit), and a check that passes leads to the call of the stage.
C22_StageOnlyAfterPassedCheck ==
    [][/\ (lpc' = "stage" /\ lpc # "stage") => lpc = "try"
       /\ (lpc' = "try" /\ lpc # "try") => lpc = "check"
       /\ lpc = "try" => lpc' = "stage"
       /\ lpc = "check" =>
            /\ lpc' \in {"try", "gated"}
            /\ check = "lambda" => lpc' = "try"
            /\ UNCHANGED <<world, locals, hist, runhist, outcome>>
       /\ lpc = "gated" =>
            /\ lpc' = IF hard_exit THEN "exited" ELSE "check"
            /\ UNCHANGED <<world, locals, hist, runhist, outcome>>]_vars

\* the download loop has fetched an image in one iteration and is gated in a
\* later one
C22_Witness ==
    /\ cmd = "download" /\ check = "partial" /\ ~hard_exit
    /\ lpc = "gated"
    /\ outcome = "returned"
    /\ fetched # {}

\* process_image is inside the call of resize_images
InCascade == ppc \in {"resize", "move", "leave", "unwind", "failed"}

\* C23: when convert or jpegoptim exits non-zero for a size of an image, the
\* call places nothing for that image: from the start of process_image to
\* the failing tool no step changes the canonical tree or the staging
\* directory, the failure leaves resize_images with the temporary directory
\* removed and ends process_image by the exception, and its caller places
\* nothing for it. The temporary directory exists only inside resize_images,
\* so it is removed on the success path as well.
C23_ToolFailurePlacesNothing ==
    /\ [](tmpdir # NoTmp => InCascade)
    /\ [][/\ ppc \in {"begin", "resize_images", "resize", "failed"} =>
               (tree' = tree /\ staged' = staged)
          /\ ppc = "failed" => (ppc' = "raised" /\ tmpdir' = NoTmp)
          /\ ppc = "leave" => (ppc' \in {"place", "returned"} /\ tmpdir' = NoTmp)
          /\ ppc = "raised" =>
               (tree' = tree /\ staged' = staged /\ tmpdir' = tmpdir)]_vars

\* with a check that always passes, process_image has raised for a staged
\* image after its second size failed: nothing is in the canonical tree,
\* the image is still staged, the temporary directory is gone
C23_Witness ==
    /\ check = "lambda" /\ kwargs.resize
    /\ ppc = "raised" /\ k = 2
    /\ img.new_path # <<>>
    /\ HasPath(staged, img.source_file)
    /\ tree = {}
    /\ tmpdir = NoTmp

\* f is a file of size directory r of the canonical tree
InSizeDir(f, r) == StartsWith(f.path, Join(Slash, <<target_dir, r>>) \o Slash)

\* the canonical tree holds the variant of size r made from the bytes of f
HasVariant(f, r) ==
    \E g \in tree : /\ InSizeDir(g, r)
                    /\ StartsWith(g.content, f.content \o <<"-">>)
                    /\ EndsWith(g.content, r)

\* every original of the canonical tree has its three variants there
OriginalsHaveVariants ==
    \A f \in tree :
        InSizeDir(f, original) =>
            \A i \in 1..Len(process_resolutions) :
                HasVariant(f, process_resolutions[i])

\* C26: with resize enabled the original of an image is placed only after
\* all of its variants were moved to their canonical paths: a step that puts
\* an original into the canonical tree is taken after resize_images has
\* returned and finds the variants there, so in every state (also after a
\* tool failure or a failed check in the middle of the placement) an
\* original in the canonical tree has all of its variants in the tree.
C26_OriginalPlacedLast ==
    /\ [](kwargs.resize => OriginalsHaveVariants)
    /\ [][(kwargs.resize /\ \E f \in tree' \ tree : InSizeDir(f, original))
             => (ppc = "place" /\ OriginalsHaveVariants')]_vars

\* image 1 is placed with its variants, and the placement of image 2 has
\* been ended by a failed check after two of its variants were moved
C26_Witness ==
    /\ kwargs.resize /\ check = "partial"
    /\ ppc = "raised"
    /\ Cardinality(tree) = 6
    /\ Cardinality({f \in tree : InSizeDir(f, original)}) = 1

\* the step ends a call of process_image by its return, not by an exception:
\* the skip of line 358 or the end of the function after line 385
ProcessImageReturns == ppc \in {"begin", "place"} /\ ppc' = ReturnTo(caller)

\* C24: in move mode, whenever process_image returns without raising for a
\* staged image, the file of that image is no longer in the staging
\* directory.
C24_ReturnedImageLeftStaging ==
    [][(~kwargs.copy /\ ProcessImageReturns)
          => ~HasPath(staged', img.source_file)]_vars

\* the step removes a file from the directory the upload command reads
LocalFileDeleted == tree' # tree

\* C21: upload2/upload_file delete a local canonical file only when deletion
\* was requested (--move; with --copy, the default of the upload command,
\* every uploaded file stays in place) and only after the upload of that
\* file has completed; a file whose upload raised is not deleted.
C21_DeleteOnlyOnMoveAfterUpload ==
    /\ [][LocalFileDeleted =>
            /\ ~kwargs.copy
            /\ img \in called
            /\ tree' = tree \ {FileOf(tree, img)}]_vars
    /\ [](ppc = "raised" => HasPath(tree, img))
====
